---- MODULE Spec2Model ----
(***************************************************************************)
(* A model of the xctrace helper scripts: trace_record.py (record_trace    *)
(* and its command line), trace_attach.py (process lookup feeding          *)
(* record_trace), trace_export.py (export_toc, export_xpath) and           *)
(* trace_analyze.py (get_trace_info, analyze_trace).                        *)
(*                                                                         *)
(* Python values are modelled as follows.  An Optional value is a sequence *)
(* of length at most one: <<>> is None and <<v>> is the value v.  A str is *)
(* a TLA+ string, a list is a sequence, a dict is a record.  The external  *)
(* tools (xctrace, pgrep) and the filesystem are the environment: their    *)
(* outcomes are chosen nondeterministically from small pools.              *)
(***************************************************************************)
EXTENDS Integers, Sequences, FiniteSets, TLC

VARIABLES
    pc,          \* position of the running script
    command,     \* which script runs: "none", "record", "attach", "analyze", "export"
    args,        \* the parsed command-line arguments (argparse namespace)
    cmd,         \* argv of the external invocation built by the script
    output,      \* record_trace: the effective output path (Optional)
    fs,          \* the filesystem: path -> size in bytes, for the paths that exist
    proc,        \* the local `result` of subprocess.run: unbound or a CompletedProcess
    interrupted, \* whether subprocess.run was left by KeyboardInterrupt
    invocations, \* number of external invocations started
    checked,     \* whether os.path.exists(output) has been evaluated
    process_info,\* trace_attach: the resolved process (Optional)
    ret,         \* the value returned by the library function (Optional dict)
    raised,      \* the exception that left the library function (Optional)
    stdout,      \* what the script printed to standard output
    stderr,      \* what the script printed to standard error
    exit_status, \* the script's exit status, -1 while it runs
    pairs,       \* naming study: the (template, clock reading) pairs drawn
    paths        \* naming study: the default output names synthesized for them

vars == <<pc, command, args, cmd, output, fs, proc, interrupted, invocations,
          checked, process_info, ret, raised, stdout, stderr, exit_status,
          pairs, paths>>

-----------------------------------------------------------------------------
(* Python built-ins on str, computed character by character.               *)

None == <<>>

Some(v) == <<v>>

\* Truth value of an Optional[str]: None and "" are false.
TruthyStr(o) == o # <<>> /\ o[1] # ""

\* Truth value of an Optional[list]: None and [] are false.
TruthyList(o) == o # <<>> /\ Len(o[1]) > 0

UpperAlpha == "ABCDEFGHIJKLMNOPQRSTUVWXYZ"

LowerAlpha == "abcdefghijklmnopqrstuvwxyz"

CharAt(s, i) == SubSeq(s, i, i)

Tail1(s) == SubSeq(s, 2, Len(s))

LowerChar(c) ==
    IF \E i \in 1..26 : CharAt(UpperAlpha, i) = c
    THEN CharAt(LowerAlpha, CHOOSE i \in 1..26 : CharAt(UpperAlpha, i) = c)
    ELSE c

RECURSIVE Lower(_)
Lower(s) == IF s = "" THEN "" ELSE LowerChar(CharAt(s, 1)) \o Lower(Tail1(s))

RECURSIVE Replace(_, _, _)
Replace(s, old, new) ==
    IF s = "" THEN ""
    ELSE (IF CharAt(s, 1) = old THEN new ELSE CharAt(s, 1)) \o Replace(Tail1(s), old, new)

\* Python's `key in s` on strings: substring test.
Contains(key, s) ==
    \E i \in 1..(Len(s) - Len(key) + 1) : SubSeq(s, i, i + Len(key) - 1) = key

IsSpace(c) == c \in {" ", "\n", "\t"}

RECURSIVE LStrip(_)
LStrip(s) == IF s # "" /\ IsSpace(CharAt(s, 1)) THEN LStrip(Tail1(s)) ELSE s

RECURSIVE RStrip(_)
RStrip(s) ==
    IF s # "" /\ IsSpace(CharAt(s, Len(s))) THEN RStrip(SubSeq(s, 1, Len(s) - 1)) ELSE s

Strip(s) == LStrip(RStrip(s))

\* Length of the longest prefix of s without character class `stop`.
RECURSIVE SpanTo(_, _)
SpanTo(s, stops) ==
    IF s = "" \/ CharAt(s, 1) \in stops THEN 0 ELSE 1 + SpanTo(Tail1(s), stops)

\* s.split("\n")
RECURSIVE SplitLines(_)
SplitLines(s) ==
    LET n == SpanTo(s, {"\n"}) IN
    IF n = Len(s) THEN <<s>>
    ELSE <<SubSeq(s, 1, n)>> \o SplitLines(SubSeq(s, n + 2, Len(s)))

\* s.split(None, 1): at most two parts, split at the first whitespace run.
SplitWs1(s) ==
    LET t == LStrip(s)
        n == SpanTo(t, {" ", "\n", "\t"})
        rest == LStrip(SubSeq(t, n + 1, Len(t)))
    IN IF t = "" THEN <<>>
       ELSE IF rest = "" THEN <<SubSeq(t, 1, n)>>
       ELSE <<SubSeq(t, 1, n), rest>>

\* Pad with the padding forgotten ("%-m" in place of "%m").
PadNone(n, width) == ToString(n)

\* Decimal digits of n, zero-padded to `width` (strftime's %m, %d, %H, %M, %S; %Y with 4).
RECURSIVE Pad(_, _)
Pad(n, width) ==
    LET s == ToString(n) IN
    IF Len(s) >= width THEN s ELSE "0" \o Pad(n, width - 1)

-----------------------------------------------------------------------------
(* trace_record.py: record_trace                                           *)

\* datetime.now().strftime("%Y%m%d_%H%M%S"): the microsecond is dropped.
Strftime(now) ==
    Pad(now.year, 4) \o Pad(now.month, 2) \o Pad(now.day, 2) \o "_"
        \o Pad(now.hour, 2) \o Pad(now.minute, 2) \o Pad(now.second, 2)

TemplateSlug(template) == Replace(Lower(template), " ", "_")

\* The default output name, generated when no output path was given.
DefaultOutput(template, now) ==
    TemplateSlug(template) \o "_" \o Strftime(now) \o ".trace"

\* `if output: ... else: output = <default>`
EffectiveOutput(template, out, now) ==
    IF TruthyStr(out) THEN out[1] ELSE DefaultOutput(template, now)

\* TargetTokens with the launch test ahead of the attach test.
TargetTokensLaunchFirst(attach, launch, all_processes) ==
    IF TruthyList(launch) THEN <<"--launch", "--">> \o launch[1]
    ELSE IF TruthyStr(attach) THEN <<"--attach", attach[1]>>
    ELSE <<"--all-processes">>

\* Target selection (mutually exclusive): the tokens appended for the target.
TargetTokens(attach, launch, all_processes) ==
    IF TruthyStr(attach) THEN <<"--attach", attach[1]>>
    ELSE IF TruthyList(launch) THEN <<"--launch", "--">> \o launch[1]
    ELSE IF all_processes THEN <<"--all-processes">>
    ELSE <<"--all-processes">>

\* The argv handed to subprocess.run.
BuildCommand(template, effective, attach, launch, all_processes, time_limit, device, quiet) ==
    <<"xcrun", "xctrace", "record">>
        \o <<"--template", template>>
        \o <<"--output", effective>>
        \o (IF TruthyStr(device) THEN <<"--device", device[1]>> ELSE <<>>)
        \o (IF TruthyStr(time_limit) THEN <<"--time-limit", time_limit[1]>> ELSE <<>>)
        \o TargetTokens(attach, launch, all_processes)
        \o <<"--no-prompt">>
        \o (IF quiet THEN <<"--quiet">> ELSE <<>>)

\* The narration printed before the recording starts, unless quiet.
Narration(template, effective, time_limit, quiet) ==
    IF quiet THEN <<>>
    ELSE <<"Recording with template: " \o template>>
            \o (IF TruthyStr(time_limit) THEN <<"Time limit: " \o time_limit[1]>> ELSE <<>>)
            \o <<"Output: " \o effective, "Recording... (Ctrl+C to stop)\n">>

MiB == 1024 * 1024

\* round(size / (1024 * 1024), 2), as a count of hundredths of a MiB
\* (round-half-to-even on the exact quotient).
SizeMb(size) ==
    LET q == (size * 100) \div MiB
        r == (size * 100) % MiB
    IN IF 2 * r > MiB \/ (2 * r = MiB /\ q % 2 = 1) THEN q + 1 ELSE q

NoException == <<>>

Exception(type, msg) == <<[type |-> type, msg |-> msg]>>

Unbound == [bound |-> FALSE, returncode |-> 0, stdout |-> "", stderr |-> ""]

CompletedProcess(rc, out, err) ==
    [bound |-> TRUE, returncode |-> rc, stdout |-> out, stderr |-> err]

\* ClassifyRecording with the diagnostic read from `result` ahead of the
\* existence test.
ClassifyReadingResultFirst(result, files, effective, template) ==
    IF ~result.bound
    THEN [ret |-> None,
          raised |-> Exception("UnboundLocalError",
                               "cannot access local variable 'result'")]
    ELSE IF effective \in DOMAIN files
    THEN [ret |-> Some([success |-> TRUE, output |-> effective,
                        size_mb |-> SizeMb(files[effective]), template |-> template]),
          raised |-> NoException]
    ELSE [ret |-> Some([success |-> FALSE, error |-> result.stderr, template |-> template]),
          raised |-> NoException]

\* ClassifyRecording deciding by the recorder's exit code, not by the file.
ClassifyByExitCode(result, files, effective, template) ==
    IF result.bound /\ result.returncode = 0
    THEN [ret |-> Some([success |-> TRUE, output |-> effective,
                        size_mb |-> IF effective \in DOMAIN files
                                    THEN SizeMb(files[effective]) ELSE 0,
                        template |-> template]),
          raised |-> NoException]
    ELSE [ret |-> Some([success |-> FALSE,
                        error |-> IF result.bound THEN result.stderr
                                  ELSE "Recording interrupted",
                        template |-> template]),
          raised |-> NoException]

\* "Check if trace was created": the tail of record_trace, from os.path.exists on.
\* `result` is read only on the else branch; reading it while it is unbound raises
\* UnboundLocalError, and a CompletedProcess object is always true.
ClassifyRecording(result, files, effective, template) ==
    IF effective \in DOMAIN files
    THEN [ret |-> Some([success |-> TRUE, output |-> effective,
                        size_mb |-> SizeMb(files[effective]), template |-> template]),
          raised |-> NoException]
    ELSE IF ~result.bound
    THEN [ret |-> None,
          raised |-> Exception("UnboundLocalError",
                               "cannot access local variable 'result' where it is not "
                                   \o "associated with a value")]
    ELSE [ret |-> Some([success |-> FALSE, error |-> result.stderr, template |-> template]),
          raised |-> NoException]

-----------------------------------------------------------------------------
(* The environment: argument pools, clock readings, tool outcomes.         *)

Templates == {"Time Profiler", "Allocations"}

OutputArgs == {None, Some("out.trace")}

AttachArgs == {None, Some(""), Some("1234")}

LaunchArgs == {None, Some(<<>>), Some(<<"/bin/app", "--attach">>)}

TimeLimitArgs == {None, Some("10s")}

DeviceArgs == {None, Some("iPhone")}

Clock(mo, d, s, us) ==
    [year |-> 2026, month |-> mo, day |-> d, hour |-> 9, minute |-> 5,
     second |-> s, microsecond |-> us]

\* Clock readings of a recording run.
RunClocks == {Clock(1, 11, 7, 0), Clock(11, 1, 7, 0)}

\* datetime.now() is read only when no output path was given.
ClockReadings(out) == IF TruthyStr(out) THEN {Clock(1, 11, 7, 0)} ELSE RunClocks

Sizes == {0, 131072, 2 * MiB}

NoFiles == [p \in {} |-> 0]

InitialFiles == {NoFiles, "out.trace" :> 4096, "rec.trace" :> 2 * MiB}

WriteFile(files, path, size) == (path :> size) @@ files

\* What the recorder may leave on disk: nothing new, or a bundle at `path`.
AfterRecording(files, path) == {files} \cup {WriteFile(files, path, n) : n \in Sizes}

\* Exit code and standard error of the recorder when it runs to the end.
RecorderExits == {[returncode |-> 0, stderr |-> ""],
                  [returncode |-> 1, stderr |-> "xctrace: recording failed"],
                  [returncode |-> 0, stderr |-> "xctrace: warning"]}

Text(line) == [kind |-> "text", text |-> line]

Json(obj) == [kind |-> "json", obj |-> obj]

RECURSIVE Lines(_)
Lines(seq) == IF seq = <<>> THEN <<>> ELSE <<Text(Head(seq))>> \o Lines(Tail(seq))

\* str(e) of the exception that left the library function.
ErrorText == raised[1].msg

-----------------------------------------------------------------------------
(* trace_record.py: the steps of record_trace and of main                  *)

\* record_trace up to the call of subprocess.run: the command is built, the
\* effective output path fixed and the narration printed.
EnterRecordTrace(template, out, attach, launch, all_processes, time_limit, device, quiet, now) ==
    LET effective == EffectiveOutput(template, out, now) IN
    /\ output' = Some(effective)
    /\ cmd' = BuildCommand(template, effective, attach, launch, all_processes,
                           time_limit, device, quiet)
    /\ stdout' = stdout \o Lines(Narration(template, effective, time_limit, quiet))
    /\ pc' = "rec_invoke"

\* trace_record.py main: parse the arguments and call record_trace.
StartRecord ==
    /\ pc = "start"
    /\ \E template \in Templates, out \in OutputArgs, attach \in AttachArgs,
          launch \in LaunchArgs, all_processes \in BOOLEAN,
          time_limit \in TimeLimitArgs, device \in DeviceArgs, json \in BOOLEAN :
       \E now \in ClockReadings(out) :
        /\ args' = [template |-> template, output |-> out, attach |-> attach,
                    launch |-> launch, all_processes |-> all_processes,
                    time_limit |-> time_limit, device |-> device, json |-> json]
        /\ EnterRecordTrace(template, out, attach, launch, all_processes,
                            time_limit, device, json, now)
    /\ command' = "record"
    /\ UNCHANGED <<fs, proc, interrupted, invocations, checked, process_info,
                   ret, raised, stderr, exit_status, pairs, paths>>

\* subprocess.run(cmd, ...) starts the recorder.
RecInvoke ==
    /\ pc = "rec_invoke"
    /\ invocations' = invocations + 1
    /\ pc' = "rec_wait"
    /\ UNCHANGED <<command, args, cmd, output, fs, proc, interrupted, checked,
                   process_info, ret, raised, stdout, stderr, exit_status, pairs, paths>>

\* subprocess.run returns a CompletedProcess, bound to `result`.
RecReturns ==
    /\ pc = "rec_wait"
    /\ \E e \in RecorderExits : proc' = CompletedProcess(e.returncode, "", e.stderr)
    /\ fs' \in AfterRecording(fs, output[1])
    /\ pc' = "rec_check"
    /\ UNCHANGED <<command, args, cmd, output, interrupted, invocations, checked,
                   process_info, ret, raised, stdout, stderr, exit_status, pairs, paths>>

\* KeyboardInterrupt inside subprocess.run: `except KeyboardInterrupt: pass`,
\* `result` stays unbound.
RecInterrupted ==
    /\ pc = "rec_wait"
    /\ interrupted' = TRUE
    /\ fs' \in AfterRecording(fs, output[1])
    /\ pc' = "rec_check"
    /\ UNCHANGED <<command, args, cmd, output, proc, invocations, checked,
                   process_info, ret, raised, stdout, stderr, exit_status, pairs, paths>>

\* os.path.exists(output) and the return (or the exception) that follows it.
RecCheck ==
    /\ pc = "rec_check"
    /\ LET r == ClassifyRecording(proc, fs, output[1], args.template) IN
        /\ ret' = r.ret
        /\ raised' = r.raised
    /\ checked' = TRUE
    /\ pc' = "rec_done"
    /\ UNCHANGED <<command, args, cmd, output, fs, proc, interrupted, invocations,
                   process_info, stdout, stderr, exit_status, pairs, paths>>

SavedLines(result) ==
    <<Text("\nTrace saved: " \o result.output \o " (" \o ToString(result.size_mb) \o "/100 MB)"),
      Text("Open in Instruments: open '" \o result.output \o "'")>>

\* What main does with the returned dict: [out, err, status].
ReportResult(result, json) ==
    IF json THEN [out |-> <<Json(result)>>, err |-> <<>>, status |-> 0]
    ELSE IF result.success THEN [out |-> SavedLines(result), err |-> <<>>, status |-> 0]
    ELSE [out |-> <<>>, err |-> <<Text("Error: " \o result.error)>>, status |-> 1]

\* trace_record.py main after record_trace: no try/except, so an exception
\* ends the script with a traceback and status 1.
RecordReport ==
    /\ pc = "rec_done"
    /\ command = "record"
    /\ LET r == IF raised # NoException
                THEN [out |-> <<>>, status |-> 1,
                      err |-> <<Text("Traceback (most recent call last): " \o ErrorText)>>]
                ELSE ReportResult(ret[1], args.json)
       IN /\ stdout' = stdout \o r.out
          /\ stderr' = stderr \o r.err
          /\ exit_status' = r.status
    /\ pc' = "exit"
    /\ UNCHANGED <<command, args, cmd, output, fs, proc, interrupted, invocations,
                   checked, process_info, ret, raised, pairs, paths>>

-----------------------------------------------------------------------------
(* trace_attach.py: find_process and main                                  *)

NameArgs == {None, Some("MyApp")}

PidArgs == {None, Some(""), Some("1234")}

\* What `pgrep -l name` may answer.
PgrepOutcomes == {[returncode |-> 1, stdout |-> ""],
                  [returncode |-> 0, stdout |-> ""],
                  [returncode |-> 0, stdout |-> "1234\n"],
                  [returncode |-> 0, stdout |-> "1234 MyApp\n"],
                  [returncode |-> 0, stdout |-> "1234 MyApp\n5678 MyApp Helper\n"]}

\* find_process on the answer of pgrep: the first line's pid and name, or None.
FindProcess(result) ==
    IF result.returncode # 0 THEN None
    ELSE LET lines == SplitLines(Strip(result.stdout)) IN
         IF lines = <<>> \/ lines[1] = "" THEN None
         ELSE LET parts == SplitWs1(lines[1]) IN
              IF Len(parts) >= 2 THEN Some([pid |-> parts[1], name |-> parts[2]])
              ELSE None

\* The handler `except Exception as e` of main: [out, err, status].
ReportException(msg, json) ==
    IF json THEN [out |-> <<Json([error |-> msg])>>, err |-> <<>>, status |-> 1]
    ELSE [out |-> <<>>, err |-> <<Text("Error: " \o msg)>>, status |-> 1]

\* trace_attach.py main: parse the arguments; without --name and --pid
\* parser.error ends the script with status 2; with a pid, record_trace is
\* entered at once; with a name only, pgrep is asked first.
StartAttach ==
    /\ pc = "start"
    /\ command' = "attach"
    /\ \E name \in NameArgs, pid \in PidArgs, template \in Templates,
          out \in OutputArgs, json \in BOOLEAN :
       \E now \in ClockReadings(out) :
        /\ args' = [name |-> name, pid |-> pid, template |-> template,
                    time_limit |-> Some("10s"), output |-> out, json |-> json]
        /\ IF ~TruthyStr(name) /\ ~TruthyStr(pid)
           THEN /\ stderr' = stderr \o <<Text("error: Either --name or --pid is required")>>
                /\ exit_status' = 2
                /\ pc' = "exit"
                /\ UNCHANGED <<cmd, output, stdout>>
           ELSE IF TruthyStr(name) /\ ~TruthyStr(pid)
           THEN /\ pc' = "att_pgrep"
                /\ UNCHANGED <<cmd, output, stdout, stderr, exit_status>>
           ELSE /\ EnterRecordTrace(template, out, pid, None, FALSE, Some("10s"),
                                    None, json, now)
                /\ UNCHANGED <<stderr, exit_status>>
    /\ UNCHANGED <<fs, proc, interrupted, invocations, checked, process_info,
                   ret, raised, pairs, paths>>

\* find_process(args.name): not found raises RuntimeError, which main's
\* handler reports; found, the pid becomes the attach target.
AttachResolve ==
    /\ pc = "att_pgrep"
    /\ \E answer \in PgrepOutcomes, now \in ClockReadings(args.output) :
        LET found == FindProcess(answer) IN
        IF found = None
        THEN LET r == ReportException("Process not found: " \o args.name[1], args.json) IN
             /\ raised' = Exception("RuntimeError", "Process not found: " \o args.name[1])
             /\ stdout' = stdout \o r.out
             /\ stderr' = stderr \o r.err
             /\ exit_status' = r.status
             /\ pc' = "exit"
             /\ UNCHANGED <<cmd, output, process_info>>
        ELSE /\ process_info' = found
             /\ LET effective == EffectiveOutput(args.template, args.output, now)
                    said == IF args.json THEN <<>>
                            ELSE <<"Found process: " \o found[1].name
                                     \o " (PID " \o found[1].pid \o ")">>
                IN /\ output' = Some(effective)
                   /\ cmd' = BuildCommand(args.template, effective, Some(found[1].pid),
                                          None, FALSE, args.time_limit, None, args.json)
                   /\ stdout' = stdout \o Lines(said)
                                   \o Lines(Narration(args.template, effective,
                                                      args.time_limit, args.json))
                   /\ pc' = "rec_invoke"
             /\ UNCHANGED <<raised, stderr, exit_status>>
    /\ UNCHANGED <<command, args, fs, proc, interrupted, invocations, checked,
                   ret, pairs, paths>>

\* result["process"] = process_info
WithProcess(result, info) ==
    IF info = None THEN result ELSE [process |-> info[1]] @@ result

\* trace_attach.py main after record_trace, inside `try`: an exception
\* of record_trace reaches `except Exception`.
AttachReport ==
    /\ pc = "rec_done"
    /\ command = "attach"
    /\ LET r == IF raised # NoException
                THEN ReportException(ErrorText, args.json)
                ELSE ReportResult(WithProcess(ret[1], process_info), args.json)
       IN /\ stdout' = stdout \o r.out
          /\ stderr' = stderr \o r.err
          /\ exit_status' = r.status
    /\ pc' = "exit"
    /\ UNCHANGED <<command, args, cmd, output, fs, proc, interrupted, invocations,
                   checked, process_info, ret, raised, pairs, paths>>

-----------------------------------------------------------------------------
(* The export tool's output: a TOC document or text that is not XML.       *)

\* A TOC document has at most MaxToc runs and at most MaxToc tables in all.
MaxToc == 2

SchemaAttrs == {None, Some(""), Some("time-profile-18"), Some("os-signpost-3"),
                Some("custom-xyz"), Some("Time-Profile"), Some("thread-state")}

\* <table schema=... target-pid=.../> elements; an absent attribute is None.
Tables == {[schema |-> a,
            target_pid |-> IF a = Some("time-profile-18") THEN Some("1234") ELSE None]
           : a \in SchemaAttrs}

\* The ways to cut t tables into 1..MaxToc consecutive runs: b[i] is the
\* number of tables in runs 1..i.
Boundaries(t) ==
    {b \in UNION {[1..n -> 0..t] : n \in 1..MaxToc} :
        /\ b[Len(b)] = t
        /\ \A i \in 1..(Len(b) - 1) : b[i] <= b[i + 1]}

RunsOf(tables, b) ==
    [i \in 1..Len(b) |->
        [number |-> Some(ToString(i)),
         tables |-> SubSeq(tables, (IF i = 1 THEN 0 ELSE b[i - 1]) + 1, b[i])]]

\* The <run> elements of the well-formed documents, in document order.
TocDocuments ==
    {<<>>} \cup UNION {{RunsOf(tables, b) : b \in Boundaries(Len(tables))} :
                        tables \in UNION {[1..t -> Tables] : t \in 0..MaxToc}}

Xml(runs) == [xml |-> TRUE, text |-> "<?xml version=\"1.0\"?><trace-toc>", runs |-> runs]

NotXml(text) == [xml |-> FALSE, text |-> text, runs |-> <<>>]

ToolTexts == {Xml(d) : d \in TocDocuments} \cup {NotXml(""), NotXml("<trace-toc><run>")}

\* Exit code, standard output and standard error of `xctrace export`.
ExportOutcomes ==
    {CompletedProcess(0, t, "") : t \in ToolTexts}
        \cup {CompletedProcess(1, t, "xctrace: cannot open document") :
                 t \in {NotXml(""),
                        Xml(<<[number |-> Some("1"),
                               tables |-> <<[schema |-> Some("time-profile-18"),
                                             target_pid |-> None]>>]>>)}}

\* The answers to a scoped (--xpath) export: the selected element is one run
\* at most, or text that is not XML.
XpathOutcomes == {a \in ExportOutcomes : Len(a.stdout.runs) <= 1}

\* str(e) of the ET.ParseError raised by ET.fromstring.
ParseErrorText(text) ==
    IF text = "" THEN "no element found: line 1, column 0"
    ELSE "no element found: line 1, column " \o ToString(Len(text))

-----------------------------------------------------------------------------
(* trace_export.py                                                          *)

\* parse_toc_xml: every run with its number and every table of it, with the
\* schema and target-pid attributes as they are (None when absent).
ParseTocXml(runs) ==
    [runs |-> [i \in 1..Len(runs) |->
                 [number |-> runs[i].number,
                  tables |-> [j \in 1..Len(runs[i].tables) |->
                                [schema |-> runs[i].tables[j].schema,
                                 target |-> runs[i].tables[j].target_pid]]]]]

\* ExportToc without the test of the exit code, as in get_trace_info.
ExportTocIgnoringExit(result) ==
    IF result.stdout.xml
    THEN [ret |-> Some([success |-> TRUE, toc |-> ParseTocXml(result.stdout.runs),
                        raw_xml |-> result.stdout]),
          raised |-> NoException]
    ELSE [ret |-> Some([success |-> TRUE, raw |-> result.stdout,
                        parse_error |-> ParseErrorText(result.stdout.text)]),
          raised |-> NoException]

\* ExportToc without the handler of ET.ParseError.
ExportTocWithoutFallback(result) ==
    IF result.returncode # 0
    THEN [ret |-> None,
          raised |-> Exception("RuntimeError", "xctrace export failed: " \o result.stderr)]
    ELSE IF result.stdout.xml
    THEN [ret |-> Some([success |-> TRUE, toc |-> ParseTocXml(result.stdout.runs),
                        raw_xml |-> result.stdout]),
          raised |-> NoException]
    ELSE [ret |-> None,
          raised |-> Exception("ParseError", ParseErrorText(result.stdout.text))]

\* export_toc on the answer of the tool: [ret, raised].
ExportToc(result) ==
    IF result.returncode # 0
    THEN [ret |-> None,
          raised |-> Exception("RuntimeError", "xctrace export failed: " \o result.stderr)]
    ELSE IF result.stdout.xml
    THEN [ret |-> Some([success |-> TRUE, toc |-> ParseTocXml(result.stdout.runs),
                        raw_xml |-> result.stdout]),
          raised |-> NoException]
    ELSE [ret |-> Some([success |-> TRUE, raw |-> result.stdout,
                        parse_error |-> ParseErrorText(result.stdout.text)]),
          raised |-> NoException]

\* export_xpath on the answer of the tool: [ret, raised].
ExportXpath(result, output_path) ==
    IF result.returncode # 0
    THEN [ret |-> None,
          raised |-> Exception("RuntimeError", "xctrace export failed: " \o result.stderr)]
    ELSE [ret |-> Some([success |-> TRUE,
                        output |-> IF TruthyStr(output_path) THEN output_path[1] ELSE "stdout",
                        data |-> IF ~TruthyStr(output_path) THEN Some(result.stdout) ELSE None]),
          raised |-> NoException]

ExportCommand(input, toc, xpath, output_path) ==
    IF toc THEN <<"xcrun", "xctrace", "export", "--input", input, "--toc">>
    ELSE <<"xcrun", "xctrace", "export", "--input", input, "--xpath", xpath[1]>>
            \o (IF TruthyStr(output_path) THEN <<"--output", output_path[1]>> ELSE <<>>)

\* trace_export.py main: parse the arguments (TOC is the default) and start
\* the export tool.
StartExport ==
    /\ pc = "start"
    /\ command' = "export"
    /\ \E out \in {None, Some("rows.xml")}, toc \in BOOLEAN,
          xpath \in {None, Some("/trace-toc/run")}, json \in BOOLEAN :
        LET toc1 == IF ~toc /\ ~TruthyStr(xpath) THEN TRUE ELSE toc IN
        /\ args' = [input |-> "rec.trace", output |-> out, toc |-> toc1,
                    xpath |-> xpath, json |-> json]
        /\ cmd' = ExportCommand("rec.trace", toc1, xpath, out)
    /\ invocations' = invocations + 1
    /\ pc' = "ex_wait"
    /\ UNCHANGED <<output, fs, proc, interrupted, checked, process_info, ret, raised,
                   stdout, stderr, exit_status, pairs, paths>>

\* subprocess.run returns; export_toc or export_xpath finishes on its answer.
ExportReturns ==
    /\ pc = "ex_wait"
    /\ \E answer \in (IF args.toc THEN ExportOutcomes ELSE XpathOutcomes) :
        LET r == IF args.toc THEN ExportToc(answer) ELSE ExportXpath(answer, args.output) IN
        /\ proc' = answer
        /\ ret' = r.ret
        /\ raised' = r.raised
        /\ fs' = IF ~args.toc /\ TruthyStr(args.output) /\ answer.returncode = 0
                 THEN WriteFile(fs, args.output[1], 4096) ELSE fs
    /\ pc' = "ex_done"
    /\ UNCHANGED <<command, args, cmd, output, interrupted, invocations, checked,
                   process_info, stdout, stderr, exit_status, pairs, paths>>

Without(dict, key) == [k \in DOMAIN dict \ {key} |-> dict[k]]

\* str() of an Optional[str] inside an f-string.
PyStr(o) == IF o = None THEN "None" ELSE o[1]

RECURSIVE TocLines(_)
TocLines(runs) ==
    IF runs = <<>> THEN <<>>
    ELSE <<Text("  Run " \o PyStr(Head(runs).number) \o ":")>>
            \o [j \in 1..Len(Head(runs).tables) |->
                   Text("    - " \o PyStr(Head(runs).tables[j].schema))]
            \o TocLines(Tail(runs))

\* What main prints for the result of an export: [out, err, status].
ReportExport(result, toc, input, json) ==
    IF json THEN [out |-> <<Json(Without(result, "raw_xml"))>>, err |-> <<>>, status |-> 0]
    ELSE IF toc /\ "toc" \in DOMAIN result
    THEN [out |-> <<Text("Trace: " \o input),
                    Text("Runs: " \o ToString(Len(result.toc.runs)) \o "\n")>>
                    \o TocLines(result.toc.runs),
          err |-> <<>>, status |-> 0]
    ELSE IF "raw" \in DOMAIN result
    THEN [out |-> <<Text(result.raw.text)>>, err |-> <<>>, status |-> 0]
    ELSE IF "data" \in DOMAIN result /\ result.data # None /\ result.data[1].text # ""
    THEN [out |-> <<Text(result.data[1].text)>>, err |-> <<>>, status |-> 0]
    ELSE [out |-> <<Text("Exported to: " \o result.output)>>, err |-> <<>>, status |-> 0]

\* trace_export.py main after the export, with its `except Exception`.
ExportReport ==
    /\ pc = "ex_done"
    /\ LET r == IF raised # NoException
                THEN ReportException(ErrorText, args.json)
                ELSE ReportExport(ret[1], args.toc, args.input, args.json)
       IN /\ stdout' = stdout \o r.out
          /\ stderr' = stderr \o r.err
          /\ exit_status' = r.status
    /\ pc' = "exit"
    /\ UNCHANGED <<command, args, cmd, output, fs, proc, interrupted, invocations,
                   checked, process_info, ret, raised, pairs, paths>>

-----------------------------------------------------------------------------
(* trace_analyze.py                                                         *)

\* The schema attributes of a run's tables that are true (not None, not "").
RECURSIVE RunSchemas(_)
RunSchemas(tables) ==
    IF tables = <<>> THEN <<>>
    ELSE (IF TruthyStr(Head(tables).schema) THEN <<Head(tables).schema[1]>> ELSE <<>>)
            \o RunSchemas(Tail(tables))

InSeq(x, seq) == \E i \in 1..Len(seq) : seq[i] = x

\* AppendNew with the membership test forgotten.
AppendAll(schemas, more) == schemas \o more

\* `if schema not in info["schemas"]: info["schemas"].append(schema)`, over a list.
RECURSIVE AppendNew(_, _)
AppendNew(schemas, more) ==
    IF more = <<>> THEN schemas
    ELSE AppendNew(IF InSeq(Head(more), schemas) THEN schemas
                   ELSE Append(schemas, Head(more)),
                   Tail(more))

\* The loop over root.findall(".//run"), from the info gathered so far.
RECURSIVE CollectRuns(_, _)
CollectRuns(info, runs) ==
    IF runs = <<>> THEN info
    ELSE LET tables == RunSchemas(Head(runs).tables) IN
         CollectRuns([info EXCEPT
                        !.schemas = AppendNew(info.schemas, tables),
                        !.runs = Append(info.runs, [number |-> Head(runs).number,
                                                    tables |-> tables])],
                     Tail(runs))

\* get_trace_info for a path that exists, on the answer of the export tool:
\* the exit code is looked at only to decide whether to parse, and a
\* ParseError is passed over.
GetTraceInfo(input_path, files, result) ==
    LET info == [path |-> input_path, size_mb |-> SizeMb(files[input_path]),
                 runs |-> <<>>, schemas |-> <<>>]
    IN IF result.returncode = 0 /\ result.stdout.xml
       THEN CollectRuns(info, result.stdout.runs)
       ELSE info

\* schema_insights, in the dict's insertion order.
SchemaInsights ==
    <<[key |-> "time-profile", insight |-> "CPU profiling data available - look for hot functions"],
      [key |-> "allocations", insight |-> "Memory allocation data - check for excessive allocations"],
      [key |-> "leaks", insight |-> "Memory leak detection - review any leaked objects"],
      [key |-> "hangs", insight |-> "Hang/hitch data - identifies UI responsiveness issues"],
      [key |-> "signpost", insight |-> "Signpost intervals - custom performance markers"],
      [key |-> "os-signpost", insight |-> "OS-level signposts - system performance data"],
      [key |-> "kdebug", insight |-> "Kernel debug data - low-level system tracing"],
      [key |-> "metal-gpu", insight |-> "Metal GPU data - graphics performance"],
      [key |-> "core-animation", insight |-> "Core Animation commits - UI rendering"]>>

\* The inner loop from catalog entry k on, with its break: the insight of the
\* first entry whose key is in the lowercased schema name, if any.
RECURSIVE FirstMatch(_, _)
FirstMatch(schema_lower, k) ==
    IF k > Len(SchemaInsights) THEN <<>>
    ELSE IF Contains(SchemaInsights[k].key, schema_lower) THEN <<SchemaInsights[k].insight>>
    ELSE FirstMatch(schema_lower, k + 1)

\* One pass of the outer loop: what a schema appends to the insights.
SchemaInsight(schema) == FirstMatch(Lower(schema), 1)

\* The outer loop: one append per matching schema, in schema order.
RECURSIVE MatchedInsights(_)
MatchedInsights(schemas) ==
    IF schemas = <<>> THEN <<>>
    ELSE SchemaInsight(Head(schemas)) \o MatchedInsights(Tail(schemas))

FallbackInsight(n) ==
    "Trace contains " \o ToString(n) \o " data tables. "
        \o "Open in Instruments.app for detailed analysis."

\* Insights with the fallback appended whether or not a schema matched.
InsightsFallbackAlways(schemas) ==
    MatchedInsights(schemas) \o <<FallbackInsight(Len(schemas))>>

Insights(schemas) ==
    LET matched == MatchedInsights(schemas) IN
    IF matched = <<>> THEN <<FallbackInsight(Len(schemas))>> ELSE matched

\* analyze_trace from the info of get_trace_info.
AnalyzeTrace(info, input_path, verbose) ==
    LET analysis == [file |-> info.path, size_mb |-> info.size_mb,
                     runs |-> Len(info.runs), available_data |-> info.schemas,
                     insights |-> Insights(info.schemas),
                     next_steps |-> <<"Open in Instruments: open '" \o input_path \o "'",
                                      "Export specific data: trace_export.py --xpath '<query>'">>]
    IN IF verbose
       THEN [all_schemas |-> info.schemas, runs_detail |-> info.runs] @@ analysis
       ELSE analysis

\* trace_analyze.py main: parse the arguments and enter get_trace_info, which
\* raises FileNotFoundError for a path that does not exist and otherwise
\* starts the export tool.
StartAnalyze ==
    /\ pc = "start"
    /\ command' = "analyze"
    /\ \E verbose \in BOOLEAN, json \in BOOLEAN :
        args' = [input |-> "rec.trace", verbose |-> verbose, json |-> json]
    /\ IF "rec.trace" \in DOMAIN fs
       THEN /\ cmd' = <<"xcrun", "xctrace", "export", "--input", "rec.trace", "--toc">>
            /\ invocations' = invocations + 1
            /\ pc' = "an_wait"
            /\ UNCHANGED raised
       ELSE /\ raised' = Exception("FileNotFoundError", "Trace not found: rec.trace")
            /\ pc' = "an_done"
            /\ UNCHANGED <<cmd, invocations>>
    /\ UNCHANGED <<output, fs, proc, interrupted, checked, process_info, ret,
                   stdout, stderr, exit_status, pairs, paths>>

\* subprocess.run returns; get_trace_info and analyze_trace finish on its answer.
AnalyzeReturns ==
    /\ pc = "an_wait"
    /\ \E answer \in ExportOutcomes :
        /\ proc' = answer
        /\ ret' = Some(AnalyzeTrace(GetTraceInfo(args.input, fs, answer),
                                    args.input, args.verbose))
    /\ pc' = "an_done"
    /\ UNCHANGED <<command, args, cmd, output, fs, interrupted, invocations, checked,
                   process_info, raised, stdout, stderr, exit_status, pairs, paths>>

\* The text report of main.
AnalysisLines(analysis) ==
    LET data == analysis.available_data
        shown == IF Len(data) > 10 THEN 10 ELSE Len(data)
    IN <<"Trace Analysis: " \o analysis.file,
         "Size: " \o ToString(analysis.size_mb) \o "/100 MB",
         "Runs: " \o ToString(analysis.runs), "">>
        \o (IF analysis.insights # <<>>
            THEN <<"Insights:">>
                    \o [i \in 1..Len(analysis.insights) |-> "  - " \o analysis.insights[i]]
                    \o <<"">>
            ELSE <<>>)
        \o <<"Available data types:">>
        \o [i \in 1..shown |-> "  - " \o data[i]]
        \o (IF Len(data) > 10
            THEN <<"  ... and " \o ToString(Len(data) - 10) \o " more">> ELSE <<>>)
        \o <<"", "Next steps:">>
        \o [i \in 1..Len(analysis.next_steps) |-> "  " \o analysis.next_steps[i]]

\* trace_analyze.py main after analyze_trace, with its `except Exception`.
AnalyzeReport ==
    /\ pc = "an_done"
    /\ LET r == IF raised # NoException
                THEN ReportException(ErrorText, args.json)
                ELSE IF args.json
                THEN [out |-> <<Json(ret[1])>>, err |-> <<>>, status |-> 0]
                ELSE [out |-> Lines(AnalysisLines(ret[1])), err |-> <<>>, status |-> 0]
       IN /\ stdout' = stdout \o r.out
          /\ stderr' = stderr \o r.err
          /\ exit_status' = r.status
    /\ pc' = "exit"
    /\ UNCHANGED <<command, args, cmd, output, fs, proc, interrupted, invocations,
                   checked, process_info, ret, raised, pairs, paths>>

-----------------------------------------------------------------------------
Init ==
    /\ pc = "start"
    /\ command = "none"
    /\ args = <<>>
    /\ cmd = <<>>
    /\ output = None
    /\ fs \in InitialFiles
    /\ proc = Unbound
    /\ interrupted = FALSE
    /\ invocations = 0
    /\ checked = FALSE
    /\ process_info = None
    /\ ret = None
    /\ raised = NoException
    /\ stdout = <<>>
    /\ stderr = <<>>
    /\ exit_status = -1
    /\ pairs = <<>>
    /\ paths = <<>>

Next ==
    \/ StartRecord
    \/ RecInvoke
    \/ RecReturns
    \/ RecInterrupted
    \/ RecCheck
    \/ RecordReport
    \/ StartAttach
    \/ AttachResolve
    \/ AttachReport
    \/ StartExport
    \/ ExportReturns
    \/ ExportReport
    \/ StartAnalyze
    \/ AnalyzeReturns
    \/ AnalyzeReport

Spec == Init /\ [][Next]_vars

-----------------------------------------------------------------------------
(* The default output name as a function of (template, clock reading): two *)
(* requests without an output path are drawn and named one after the other.*)

NameTemplates == {"Time Profiler", "time_profiler", "Allocations", "Time"}

NameClocks ==
    {Clock(mo, d, s, us) : mo \in {1, 11}, d \in {1, 11}, s \in {7, 8}, us \in {0, 500000}}

NameRequests == {[template |-> t, now |-> c] : t \in NameTemplates, c \in NameClocks}

InitNames ==
    /\ pc = "names"
    /\ command = "none"
    /\ args = <<>>
    /\ cmd = <<>>
    /\ output = None
    /\ fs = NoFiles
    /\ proc = Unbound
    /\ interrupted = FALSE
    /\ invocations = 0
    /\ checked = FALSE
    /\ process_info = None
    /\ ret = None
    /\ raised = NoException
    /\ stdout = <<>>
    /\ stderr = <<>>
    /\ exit_status = -1
    /\ pairs \in [1..2 -> NameRequests]
    /\ paths = <<>>

\* The else branch of `if output:` for the next request.
SynthesizeName ==
    /\ pc = "names"
    /\ Len(paths) < Len(pairs)
    /\ LET req == pairs[Len(paths) + 1] IN
        paths' = Append(paths, EffectiveOutput(req.template, None, req.now))
    /\ UNCHANGED <<pc, command, args, cmd, output, fs, proc, interrupted, invocations,
                   checked, process_info, ret, raised, stdout, stderr, exit_status, pairs>>

NextNames == SynthesizeName

SpecNames == InitNames /\ [][NextNames]_vars

-----------------------------------------------------------------------------
(* Properties of record_trace                                              *)

\* record_trace has returned or raised (the script may have ended since).
RecordingEnded == command \in {"record", "attach"} /\ checked

OutputExists == output # None /\ output[1] \in DOMAIN fs

Saved == raised = NoException /\ ret # None /\ ret[1].success

Failed == raised = NoException /\ ret # None /\ ~ret[1].success
              /\ "error" \in DOMAIN ret[1]

\* C1: whenever the recording invocation was interrupted (KeyboardInterrupt in
\* subprocess.run) and a file exists at the effective output path afterwards,
\* record_trace returns a Saved result carrying that path: no Failed result,
\* no exception.
C1_InterruptedWithFileIsSaved ==
    (RecordingEnded /\ interrupted /\ OutputExists)
        => (Saved /\ ret[1].output = output[1])

C1_Witness ==
    /\ pc = "rec_done"
    /\ interrupted
    /\ OutputExists
    /\ Saved

\* C2: for every exit code of the recorder, zero or not, if no file exists at
\* the effective output path after the invocation returned, the result is
\* Failed (success false, with an error field) and never Saved.
C2_NoFileIsFailed ==
    (RecordingEnded /\ proc.bound /\ ~OutputExists)
        => (Failed /\ ret[1].error = proc.stderr)

C2_Witness ==
    /\ pc = "rec_done"
    /\ proc.bound
    /\ proc.returncode = 0
    /\ ~OutputExists
    /\ Failed

\* C3: when the invocation was interrupted before a subprocess result was
\* captured and no file exists at the effective output path, record_trace
\* returns a Failed result whose diagnostic is "Recording interrupted"; it
\* does not raise.
C3_InterruptedWithoutFileIsFailed ==
    (RecordingEnded /\ interrupted /\ ~proc.bound /\ ~OutputExists)
        => (Failed /\ ret[1].error = "Recording interrupted")

HasJsonError(printed) ==
    \E i \in 1..Len(printed) :
        printed[i].kind = "json" /\ "error" \in DOMAIN printed[i].obj

HasErrorLine(printed) ==
    \E i \in 1..Len(printed) :
        printed[i].kind = "text" /\ SubSeq(printed[i].text, 1, 7) = "Error: "

\* C4: every run of the record and attach commands whose recording ends in a
\* Failed result ends with a non-zero exit status, in --json mode and in text
\* mode; --json mode prints an error object, text mode prints a diagnostic
\* line to the error stream.
C4_FailedExitsNonZero ==
    (pc = "exit" /\ RecordingEnded /\ Failed)
        => /\ exit_status # 0
           /\ IF args.json THEN HasJsonError(stdout) ELSE HasErrorLine(stderr)

\* C9: the command built by record_trace holds exactly one target selector
\* among --attach, --launch and --all-processes ahead of the "--" separator:
\* --attach (followed by the identifier) whenever a non-empty attach
\* identifier is supplied, also next to a launch command; --launch when only
\* a non-empty launch command is supplied; --all-processes otherwise.
TargetSelectors == {"--attach", "--launch", "--all-processes"}

\* The tokens ahead of the first "--" (all of them when there is none).
RECURSIVE OptionPart(_)
OptionPart(tokens) ==
    IF tokens = <<>> \/ Head(tokens) = "--" THEN <<>>
    ELSE <<Head(tokens)>> \o OptionPart(Tail(tokens))

SelectorsOf(tokens) == SelectSeq(OptionPart(tokens), LAMBDA t : t \in TargetSelectors)

C9_OneTargetByPriority ==
    /\ (command = "record" /\ pc # "start")
        => /\ Len(SelectorsOf(cmd)) = 1
           /\ (args.attach # None /\ args.attach[1] # "")
                 => /\ SelectorsOf(cmd) = <<"--attach">>
                    /\ \E i \in 1..(Len(cmd) - 1) :
                          cmd[i] = "--attach" /\ cmd[i + 1] = args.attach[1]
           /\ (~(args.attach # None /\ args.attach[1] # "")
                 /\ args.launch # None /\ args.launch[1] # <<>>)
                 => SelectorsOf(cmd) = <<"--launch">>
           /\ (~(args.attach # None /\ args.attach[1] # "")
                 /\ ~(args.launch # None /\ args.launch[1] # <<>>))
                 => SelectorsOf(cmd) = <<"--all-processes">>
    /\ (command = "attach" /\ cmd # <<>>)
        => SelectorsOf(cmd) = <<"--attach">>

C9_Witness ==
    /\ command = "record"
    /\ pc = "rec_invoke"
    /\ TruthyStr(args.attach)
    /\ TruthyList(args.launch)
    /\ ~args.all_processes
    /\ SelectorsOf(cmd) = <<"--attach">>

\* The clock reading at second granularity.
ToSecond(now) == <<now.year, now.month, now.day, now.hour, now.minute, now.second>>

BothNamed == pc = "names" /\ Len(paths) = 2

\* C10 as stated: the default name is a function of (template, clock reading
\* at second granularity), and two distinct (template, timestamp) pairs never
\* get the same name.
C10_DistinctPairsDistinctNames ==
    BothNamed
        => ((paths[1] = paths[2])
              <=> (/\ pairs[1].template = pairs[2].template
                   /\ ToSecond(pairs[1].now) = ToSecond(pairs[2].now)))

\* C10 as amended: the default name is a function of (slug(template), clock
\* reading at second granularity), and two requests get the same name exactly
\* when their template slugs are equal and their clock readings agree to the
\* second.
C10_NameDecidedBySlugAndSecond ==
    BothNamed
        => ((paths[1] = paths[2])
              <=> (/\ Replace(Lower(pairs[1].template), " ", "_")
                        = Replace(Lower(pairs[2].template), " ", "_")
                   /\ ToSecond(pairs[1].now) = ToSecond(pairs[2].now)))

C10_Witness ==
    /\ BothNamed
    /\ pairs[1].template # pairs[2].template
    /\ pairs[1].now.microsecond # pairs[2].now.microsecond
    /\ paths[1] = paths[2]

-----------------------------------------------------------------------------
(* Properties of the export and of the analysis                            *)

\* The insight text of the catalog entry with this key.
CatalogText(key) ==
    SchemaInsights[CHOOSE k \in 1..Len(SchemaInsights) : SchemaInsights[k].key = key].insight

Analyzed == command = "analyze" /\ pc \in {"an_done", "exit"}

\* C5: analyze_trace on the schema list <<"time-profile-18", "os-signpost-3">>
\* produces exactly two insights, in that order: the catalog text of the
\* "time-profile" entry, then the catalog text of the "os-signpost" entry.
C5_TimeProfileThenOsSignpost ==
    (Analyzed /\ ret # None
        /\ ret[1].available_data = <<"time-profile-18", "os-signpost-3">>)
        => ret[1].insights = <<CatalogText("time-profile"), CatalogText("os-signpost")>>

\* C6: the insight list of analyze_trace holds no two equal strings: when
\* several schemas match the same catalog pattern, its text appears once.
C6_NoDuplicateInsights ==
    (Analyzed /\ ret # None)
        => \A i, j \in 1..Len(ret[1].insights) :
              i # j => ret[1].insights[i] # ret[1].insights[j]

Exported == command = "export" /\ pc \in {"ex_done", "exit"}

\* C7: whenever the export invocation exits with a nonzero status, export_toc
\* and export_xpath raise a failure whose message carries the tool's
\* standard-error text, and return no result dictionary.
C7_ExportFailureRaises ==
    (Exported /\ proc.returncode # 0)
        => /\ ret = None
           /\ raised # NoException
           /\ raised[1].type = "RuntimeError"
           /\ raised[1].msg = "xctrace export failed: " \o proc.stderr
           /\ Contains(proc.stderr, raised[1].msg)

C7_Witness ==
    /\ pc = "ex_done"
    /\ command = "export"
    /\ args.toc
    /\ proc.returncode # 0
    /\ raised # NoException

\* C8: when analyze_trace runs on an existing bundle and the TOC export exits
\* with a nonzero status, the analysis surfaces a thrown failure; it never
\* returns an insight report built from an empty run and schema list.
C8_AnalysisOfFailedExportRaises ==
    (Analyzed /\ proc.bound /\ proc.returncode # 0)
        => (raised # NoException /\ ret = None)

\* The schema attributes (None when absent) of all tables of all runs, in
\* document order.
RECURSIVE SchemaAttributes(_)
SchemaAttributes(runs) ==
    IF runs = <<>> THEN <<>>
    ELSE [j \in 1..Len(Head(runs).tables) |-> Head(runs).tables[j].schema]
            \o SchemaAttributes(Tail(runs))

\* Position of the first table whose schema attribute is `name`.
FirstSeen(name, attrs) ==
    CHOOSE t \in 1..Len(attrs) :
        attrs[t] = Some(name) /\ \A u \in 1..(t - 1) : attrs[u] # Some(name)

\* `list` is the deduplicated, first-seen-order union of the attributes at
\* the positions `from` of attrs.
IsFirstSeenUnion(list, attrs, from) ==
    /\ \A i \in 1..Len(list) : \E t \in from : attrs[t] = Some(list[i])
    /\ \A t \in from : \E i \in 1..Len(list) : list[i] = attrs[t][1]
    /\ \A i, j \in 1..Len(list) : i # j => list[i] # list[j]
    /\ \A i, j \in 1..Len(list) :
          i < j => FirstSeen(list[i], attrs) < FirstSeen(list[j], attrs)

\* analyze_trace returned a report built from a well-formed TOC document.
AnalyzedToc ==
    Analyzed /\ ret # None /\ proc.bound /\ proc.returncode = 0 /\ proc.stdout.xml

\* C11 as stated: for every well-formed TOC document the schema list of
\* get_trace_info is the deduplicated, first-seen-order union of the schema
\* attributes of all tables of all runs; a table without the attribute
\* contributes nothing.
C11_SchemasAreUnionOfAttributes ==
    AnalyzedToc
        => LET attrs == SchemaAttributes(proc.stdout.runs) IN
           IsFirstSeenUnion(ret[1].available_data, attrs,
                            {t \in 1..Len(attrs) : attrs[t] # None})

\* C11 as amended: the schema list is the deduplicated, first-seen-order
\* union of the non-empty schema attributes of all tables of all runs; a
\* table without the attribute, or with an empty one, contributes nothing.
C11_SchemasAreUnionOfNonEmptyAttributes ==
    AnalyzedToc
        => LET attrs == SchemaAttributes(proc.stdout.runs) IN
           IsFirstSeenUnion(ret[1].available_data, attrs,
                            {t \in 1..Len(attrs) : attrs[t] # None /\ attrs[t][1] # ""})

\* Two runs holding the same schema: it is listed once.
C11_Witness ==
    /\ AnalyzedToc
    /\ Len(proc.stdout.runs) = 2
    /\ SchemaAttributes(proc.stdout.runs) = <<Some("os-signpost-3"), Some("os-signpost-3")>>
    /\ ret[1].available_data = <<"os-signpost-3">>

\* export_toc got exit code 0 and output that is not well-formed XML.
MalformedTocExport ==
    Exported /\ args.toc /\ proc.bound /\ proc.returncode = 0 /\ ~proc.stdout.xml

\* C12: when the export invocation exits zero but its output is not
\* well-formed XML, export_toc does not raise: it returns a result carrying
\* the raw output text unchanged and a non-empty parse-error note, and no
\* parsed toc.
C12_MalformedTocFallsBackToRaw ==
    MalformedTocExport
        => /\ raised = NoException
           /\ ret # None
           /\ ret[1].success
           /\ "raw" \in DOMAIN ret[1]
           /\ ret[1].raw = proc.stdout
           /\ "parse_error" \in DOMAIN ret[1]
           /\ ret[1].parse_error # ""
           /\ "toc" \notin DOMAIN ret[1]

C12_Witness ==
    /\ MalformedTocExport
    /\ pc = "ex_done"
    /\ proc.stdout.text = "<trace-toc><run>"
    /\ ret # None
    /\ ret[1].raw.text = "<trace-toc><run>"

\* No schema name contains a catalog pattern, letter case aside.
NoCatalogMatch(schemas) ==
    \A i \in 1..Len(schemas), k \in 1..Len(SchemaInsights) :
        ~Contains(SchemaInsights[k].key, Lower(schemas[i]))

IsFallbackText(text) == SubSeq(text, 1, 15) = "Trace contains "

\* C13: for every schema list in which no schema name contains a catalog
\* pattern (case-insensitively), the empty list included, the insights of
\* analyze_trace are exactly one fallback insight stating the number of
\* schemas in the list; when some schema matches, no fallback insight is
\* present.
C13_FallbackExactlyWhenNoMatch ==
    (Analyzed /\ ret # None)
        => LET schemas == ret[1].available_data
               insights == ret[1].insights
           IN IF NoCatalogMatch(schemas)
              THEN insights = <<"Trace contains " \o ToString(Len(schemas))
                                  \o " data tables. Open in Instruments.app for detailed analysis.">>
              ELSE /\ insights # <<>>
                   /\ \A i \in 1..Len(insights) : ~IsFallbackText(insights[i])

C13_Witness ==
    /\ Analyzed
    /\ ret # None
    /\ ret[1].available_data = <<"custom-xyz">>
    /\ ret[1].insights
         = <<"Trace contains 1 data tables. Open in Instruments.app for detailed analysis.">>

ProfilerOptions ==
    {"--template", "--output", "--device", "--time-limit", "--no-prompt", "--quiet"}

\* C14: for a Launch target the command built by record_trace has "--"
\* directly after --launch, the tokens after the separator are exactly the
\* launch command and its arguments, and every profiler option (--template,
\* --output, --device, --time-limit, --no-prompt, --quiet) stands ahead of
\* the separator, whatever the quiet flag.
C14_LaunchCommandEndsTheArgv ==
    (command = "record" /\ pc # "start" /\ SelectorsOf(cmd) = <<"--launch">>)
        => \E i \in 1..(Len(cmd) - 1) :
              /\ cmd[i] = "--launch"
              /\ cmd[i + 1] = "--"
              /\ SubSeq(cmd, i + 2, Len(cmd)) = args.launch[1]
              /\ \A j \in 1..Len(cmd) : cmd[j] \in ProfilerOptions => j < i
              /\ \E j \in 1..(i - 1) : cmd[j] = "--no-prompt"
              /\ args.json => \E j \in 1..(i - 1) : cmd[j] = "--quiet"

\* C15: in every execution of record_trace exactly one recording invocation
\* is started; the existence check on the output path happens only after
\* that invocation returned or was interrupted; no result is produced ahead
\* of the check; and every execution that reaches the check ends in a Saved
\* or a Failed result.
C15_OneInvocationThenCheckThenResult ==
    command \in {"record", "attach"}
        => /\ invocations <= 1
           /\ checked => (invocations = 1 /\ (proc.bound \/ interrupted))
           /\ ~checked => ret = None
           /\ pc \in {"rec_done", "exit"} /\ cmd # <<>> => (checked /\ invocations = 1)
           /\ checked => (Saved \/ Failed)

=============================================================================
